---- MODULE Spec2Model ----
(***************************************************************************)
(* Model of security/zap-baseline-scan.py: one run of                      *)
(* ZapBaselineScan.run_full_scan, driven against an engine (ZAP) whose     *)
(* responses are chosen nondeterministically.  Every HTTP request of the   *)
(* script is one step; a request either returns a response or raises.      *)
(***************************************************************************)
EXTENDS Integers, Sequences, FiniteSets, TLC

VARIABLES
    pc,              \* position of the run inside run_full_scan
    zap_process,     \* "unset" (no attribute), "running", "terminated"
    waited,          \* zap_process.wait() has returned
    spawn_calls,     \* number of subprocess.Popen calls that returned a process
    attempts,        \* iterations of the readiness loop executed so far
    lastVersion,     \* outcome of the latest version poll
    started,         \* return value of start_zap_daemon: "pending", "true", "false"
    authProbe,       \* outcome of the health probe of has_auth ("none" before it)
    auth_calls,      \* number of configure_authentication calls
    spiderId,        \* scan_id of run_spider_scan ("none" before the start request)
    spiderStatus,    \* latest status read by run_spider_scan
    spiderPollId,    \* scanId parameter of the latest spider status poll
    ascanId,         \* scan_id of run_active_scan
    ascanStatus,     \* latest status read by run_active_scan
    ascanPollId,     \* scanId parameter of the latest active-scan status poll
    results,         \* value returned by get_scan_results
    risk_counts,     \* local of generate_report
    detailed_findings, \* local of generate_report
    report,          \* content of zap-report.json
    report_writes,   \* number of times zap-report.json was opened for writing
    htmlOutcome,     \* outcome of the HTML report request
    summaryPrinted,  \* the "Security scan completed" summary was printed
    exc,             \* exception propagating out of the try block
    failedStep,      \* step in which exc was raised
    stop_calls,      \* number of stop_zap calls
    terminate_calls, \* number of zap_process.terminate() calls
    issued,          \* engine control endpoints requested so far
    lateRequest,     \* an engine control request was issued after stop_zap
    trace,           \* steps of the run in the order they began
    exit_code,       \* exit status of the process (-1 while running)
    spiderPolls,     \* status polls made by the running loop of run_spider_scan
                     \* (MaxPolls stands for MaxPolls or more; 0 outside the loop)
    spider_starts,   \* number of spider/action/scan requests
    ascan_starts,    \* number of ascan/action/scan requests
    pollAfterDone,   \* a status poll was issued for a job already read at 100
    spiderReturn,    \* return value of run_spider_scan ("none" before it returns)
    ascanReturn      \* return value of run_active_scan ("none" before it returns)

vars == << pc, zap_process, waited, spawn_calls, attempts, lastVersion, started,
           authProbe, auth_calls, spiderId, spiderStatus, spiderPollId,
           ascanId, ascanStatus, ascanPollId, results, risk_counts,
           detailed_findings, report, report_writes, htmlOutcome,
           summaryPrinted, exc, failedStep, stop_calls, terminate_calls,
           issued, lateRequest, trace, exit_code, spiderPolls, spider_starts,
           ascan_starts, pollAfterDone, spiderReturn, ascanReturn >>

\* the bookkeeping of the two scan jobs
scanVars == << spiderPolls, spider_starts, ascan_starts, pollAfterDone,
              spiderReturn, ascanReturn >>

----------------------------------------------------------------------------
(* Bounds of the model *)

MaxAlerts == 2

MaxPolls == 3

(* Program constants *)

max_attempts == 30

----------------------------------------------------------------------------
(* Inputs: what the engine, the target and the OS may answer *)

\* an outcome of requests.get: a response with its status code, or an exception
Resp(code) == [kind |-> "response", code |-> code]

Exc(name) == [kind |-> name, code |-> 0]

NoOutcome == [kind |-> "none", code |-> 0]

\* outcomes of requests.get on the version endpoint: a status code, a
\* requests.ConnectionError, or another exception (e.g. requests.Timeout)
VersionOutcomes == {Resp(200), Resp(204), Resp(500),
                    Exc("ConnectionError"), Exc("Timeout")}

IsResponse(out) == out.kind = "response"

Is2xx(out) == IsResponse(out) /\ out.code >= 200 /\ out.code <= 299

\* outcomes of the health probe of has_auth
HealthOutcomes == {Resp(200), Resp(401), Resp(404),
                   Exc("ConnectionError"), Exc("Timeout")}

\* outcomes of the HTML report request
HtmlOutcomes == {Resp(200), Resp(500), Exc("ConnectionError")}

\* the 'status' strings of the status views
StatusValues == {"0", "50", "100"}

\* the 'scan' identifiers of the scan actions
ScanIds == {"0", "1"}

Missing == "<missing>"

Severities == {"High", "Medium", "Low", "Informational"}

\* values of the 'risk' key of an alert; Missing stands for an absent key
RiskValues == Severities \cup {"Critical", Missing}

AlertNames == {"a", "b"}

Alerts == [risk : RiskValues, alert : AlertNames]

SeqsUpTo(S, n) == UNION {[1..k -> S] : k \in 0..n}

\* the JSON object of the alerts view; hasAlerts = FALSE: no 'alerts' key
ResultValues == {[hasAlerts |-> FALSE, alerts |-> << >>]}
                  \cup {[hasAlerts |-> TRUE, alerts |-> a] :
                           a \in SeqsUpTo(Alerts, MaxAlerts)}

NoResults == [hasAlerts |-> FALSE, alerts |-> << >>]

ZeroCounts == [s \in Severities |-> 0]

EmptyFindings == [s \in Severities |-> << >>]

\* zap-report.json does not exist
NoReport == [written |-> FALSE, summary |-> ZeroCounts,
             findings |-> EmptyFindings, total_alerts |-> 0]

----------------------------------------------------------------------------
(* Pure parts of the code *)

\* results.get('alerts', [])
GetAlerts(res) == IF res.hasAlerts THEN res.alerts ELSE << >>

\* alert.get('risk', 'Informational')
AlertRisk(alert) == IF alert.risk = Missing THEN "Informational" ELSE alert.risk

\* the dict appended to detailed_findings[risk]
Finding(alert) == [name |-> alert.alert]

Bump_twice(counts, risk) == [counts EXCEPT ![risk] = @ + 2]

\* risk_counts[risk] += 1
Bump(counts, risk) == [counts EXCEPT ![risk] = @ + 1]

AppendFinding_prepend(findings, risk, alert) ==
    [findings EXCEPT ![risk] = << Finding(alert) >> \o @]

\* detailed_findings[risk].append({...})
AppendFinding(findings, risk, alert) ==
    [findings EXCEPT ![risk] = Append(@, Finding(alert))]

\* the for loop of generate_report over alerts[i..]; a risk that is no key of
\* risk_counts raises KeyError and leaves the loop
RECURSIVE Categorize(_, _, _, _)
Categorize(alerts, i, counts, findings) ==
    IF i > Len(alerts)
    THEN [ok |-> TRUE, counts |-> counts, findings |-> findings]
    ELSE LET risk == AlertRisk(alerts[i])
         IN  IF risk \notin DOMAIN counts
             THEN [ok |-> FALSE, counts |-> counts, findings |-> findings]
             ELSE Categorize(alerts, i + 1, Bump(counts, risk),
                             AppendFinding(findings, risk, alerts[i]))

\* the report dict (scan_date and target_url do not depend on the alerts)
MakeReport(alerts, counts, findings) ==
    [written |-> TRUE, summary |-> counts, findings |-> findings,
     total_alerts |-> Len(alerts)]

ReadyStatus_2xx(code) == code >= 200 /\ code <= 299

\* response.status_code == 200
ReadyStatus(code) == code = 200

SpiderDone_any(status) == status # "0"

\* status == '100' in run_spider_scan
SpiderDone(status) == status = "100"

AscanDone_any(status) == status # "0"

\* status == '100' in run_active_scan
AscanDone(status) == status = "100"

AuthRequired_not200(code) == code # 200

\* response.status_code == 401
AuthRequired(code) == code = 401

----------------------------------------------------------------------------

Init ==
    /\ pc = "main"
    /\ zap_process = "unset"
    /\ waited = FALSE
    /\ spawn_calls = 0
    /\ attempts = 0
    /\ lastVersion = NoOutcome
    /\ started = "pending"
    /\ authProbe = NoOutcome
    /\ auth_calls = 0
    /\ spiderId = "none"
    /\ spiderStatus = "none"
    /\ spiderPollId = "none"
    /\ ascanId = "none"
    /\ ascanStatus = "none"
    /\ ascanPollId = "none"
    /\ results = NoResults
    /\ risk_counts = ZeroCounts
    /\ detailed_findings = EmptyFindings
    /\ report = NoReport
    /\ report_writes = 0
    /\ htmlOutcome = NoOutcome
    /\ summaryPrinted = FALSE
    /\ exc = "none"
    /\ failedStep = "none"
    /\ stop_calls = 0
    /\ terminate_calls = 0
    /\ issued = {}
    /\ lateRequest = FALSE
    /\ trace = << >>
    /\ exit_code = -1
    /\ spiderPolls = 0
    /\ spider_starts = 0
    /\ ascan_starts = 0
    /\ pollAfterDone = FALSE
    /\ spiderReturn = "none"
    /\ ascanReturn = "none"

----------------------------------------------------------------------------
(* Helpers shared by the steps *)

\* one requests.get on an engine control endpoint
Request(endpoint) ==
    /\ issued' = issued \cup {endpoint}
    /\ lateRequest' = (lateRequest \/ stop_calls > 0)

\* a step of the sequence begins
Begin(step) == trace' = Append(trace, step)

Raise_swallowed(e, step) ==
    /\ exc' = exc
    /\ failedStep' = step
    /\ pc' = CASE step = "configure" -> "spider_start"
               [] step = "discover" -> "ascan_start"
               [] step = "probe" -> "get_results"
               [] OTHER -> "finally"

\* an exception leaves the try block of run_full_scan: control goes to finally
Raise(e, step) ==
    /\ exc' = e
    /\ failedStep' = step
    /\ pc' = "finally"

----------------------------------------------------------------------------
(* main *)

\* the command lines: len(sys.argv) with no, one or two arguments
ArgCounts == {1, 2, 3}

\* main: without a target URL print the usage and sys.exit(1), else build the
\* scanner and call run_full_scan
Main ==
    /\ pc = "main"
    /\ \E argc \in ArgCounts :
          IF argc < 2
          THEN exit_code' = 1 /\ pc' = "done"
          ELSE exit_code' = exit_code /\ pc' = "start"
    /\ UNCHANGED << zap_process, waited, spawn_calls, attempts, lastVersion,
                    started, authProbe, auth_calls, spiderId, spiderStatus,
                    spiderPollId, ascanId, ascanStatus, ascanPollId, results,
                    risk_counts, detailed_findings, report, report_writes,
                    htmlOutcome, summaryPrinted, exc, failedStep, stop_calls,
                    terminate_calls, issued, lateRequest, trace >>
    /\ UNCHANGED scanVars

----------------------------------------------------------------------------
(* start_zap_daemon *)

\* subprocess.Popen: returns a process, or raises (zap.sh not found), which
\* the outer except turns into return False
Spawn ==
    /\ pc = "start"
    /\ Begin("start")
    /\ \E ok \in BOOLEAN :
          IF ok
          THEN /\ zap_process' = "running"
               /\ spawn_calls' = spawn_calls + 1
               /\ pc' = "wait_ready"
               /\ started' = started
          ELSE /\ started' = "false"
               /\ pc' = "start_failed"
               /\ UNCHANGED << zap_process, spawn_calls >>
    /\ UNCHANGED << waited, attempts, lastVersion, authProbe, auth_calls,
                    spiderId, spiderStatus, spiderPollId, ascanId, ascanStatus,
                    ascanPollId, results, risk_counts, detailed_findings,
                    report, report_writes, htmlOutcome, summaryPrinted, exc,
                    failedStep, stop_calls, terminate_calls, issued,
                    lateRequest, exit_code >>
    /\ UNCHANGED scanVars

\* one iteration of "for _ in range(max_attempts)"
PollVersion ==
    /\ pc = "wait_ready"
    /\ attempts < max_attempts
    /\ \E out \in VersionOutcomes :
          /\ lastVersion' = out
          /\ IF IsResponse(out)
             THEN IF ReadyStatus(out.code)
                  THEN started' = "true" /\ pc' = "configure"
                  ELSE started' = started /\ pc' = pc
             ELSE IF out.kind = "ConnectionError"
                  THEN started' = started /\ pc' = pc
                  ELSE started' = "false" /\ pc' = "start_failed"
    /\ attempts' = attempts + 1
    /\ Request("version")
    /\ UNCHANGED << zap_process, waited, spawn_calls, authProbe, auth_calls,
                    spiderId, spiderStatus, spiderPollId, ascanId, ascanStatus,
                    ascanPollId, results, risk_counts, detailed_findings,
                    report, report_writes, htmlOutcome, summaryPrinted, exc,
                    failedStep, stop_calls, terminate_calls, trace, exit_code >>
    /\ UNCHANGED scanVars

\* the loop is exhausted: return False
ReadyTimeout ==
    /\ pc = "wait_ready"
    /\ attempts >= max_attempts
    /\ started' = "false"
    /\ pc' = "start_failed"
    /\ UNCHANGED << zap_process, waited, spawn_calls, attempts, lastVersion,
                    authProbe, auth_calls, spiderId, spiderStatus,
                    spiderPollId, ascanId, ascanStatus, ascanPollId, results,
                    risk_counts, detailed_findings, report, report_writes,
                    htmlOutcome, summaryPrinted, exc, failedStep, stop_calls,
                    terminate_calls, issued, lateRequest, trace, exit_code >>
    /\ UNCHANGED scanVars

StartFailed_continue ==
    /\ pc = "start_failed"
    /\ pc' = "configure"
    /\ UNCHANGED << zap_process, waited, spawn_calls, attempts, lastVersion,
                    started, authProbe, auth_calls, spiderId, spiderStatus,
                    spiderPollId, ascanId, ascanStatus, ascanPollId, results,
                    risk_counts, detailed_findings, report, report_writes,
                    htmlOutcome, summaryPrinted, exc, failedStep, stop_calls,
                    terminate_calls, issued, lateRequest, trace, exit_code >>
    /\ UNCHANGED scanVars

\* run_full_scan: start_zap_daemon returned False, sys.exit(1) outside the try
StartFailed ==
    /\ pc = "start_failed"
    /\ exit_code' = 1
    /\ pc' = "done"
    /\ UNCHANGED << zap_process, waited, spawn_calls, attempts, lastVersion,
                    started, authProbe, auth_calls, spiderId, spiderStatus,
                    spiderPollId, ascanId, ascanStatus, ascanPollId, results,
                    risk_counts, detailed_findings, report, report_writes,
                    htmlOutcome, summaryPrinted, exc, failedStep, stop_calls,
                    terminate_calls, issued, lateRequest, trace >>
    /\ UNCHANGED scanVars

----------------------------------------------------------------------------
(* configure_zap, has_auth, configure_authentication *)

\* the includeInContext request of configure_zap
Configure ==
    /\ pc = "configure"
    /\ Begin("configure")
    /\ Request("includeInContext")
    /\ \E ok \in BOOLEAN :
          IF ok
          THEN pc' = "has_auth" /\ UNCHANGED << exc, failedStep >>
          ELSE Raise("RequestException", "configure")
    /\ UNCHANGED << zap_process, waited, spawn_calls, attempts, lastVersion,
                    started, authProbe, auth_calls, spiderId, spiderStatus,
                    spiderPollId, ascanId, ascanStatus, ascanPollId, results,
                    risk_counts, detailed_findings, report, report_writes,
                    htmlOutcome, summaryPrinted, stop_calls, terminate_calls,
                    exit_code >>
    /\ UNCHANGED scanVars

HasAuth_probeFirst ==
    /\ pc = "has_auth"
    /\ \E out \in HealthOutcomes :
          /\ authProbe' = out
          /\ auth_calls' = IF IsResponse(out) /\ AuthRequired(out.code)
                           THEN auth_calls + 1 ELSE auth_calls
    /\ pc' = "ascan_start"
    /\ UNCHANGED << zap_process, waited, spawn_calls, attempts, lastVersion,
                    started, spiderId, spiderStatus, spiderPollId, ascanId,
                    ascanStatus, ascanPollId, results, risk_counts,
                    detailed_findings, report, report_writes, htmlOutcome,
                    summaryPrinted, exc, failedStep, stop_calls,
                    terminate_calls, issued, lateRequest, trace, exit_code >>
    /\ UNCHANGED scanVars

\* has_auth (every exception of the probe is swallowed) and the call of
\* configure_authentication, which does nothing
HasAuth ==
    /\ pc = "has_auth"
    /\ \E out \in HealthOutcomes :
          /\ authProbe' = out
          /\ auth_calls' = IF IsResponse(out) /\ AuthRequired(out.code)
                           THEN auth_calls + 1 ELSE auth_calls
    /\ pc' = "spider_start"
    /\ UNCHANGED << zap_process, waited, spawn_calls, attempts, lastVersion,
                    started, spiderId, spiderStatus, spiderPollId, ascanId,
                    ascanStatus, ascanPollId, results, risk_counts,
                    detailed_findings, report, report_writes, htmlOutcome,
                    summaryPrinted, exc, failedStep, stop_calls,
                    terminate_calls, issued, lateRequest, trace, exit_code >>
    /\ UNCHANGED scanVars

----------------------------------------------------------------------------
(* run_spider_scan *)

\* the spider/action/scan request and response.json()['scan']
SpiderStart ==
    /\ pc = "spider_start"
    /\ Begin("discover")
    /\ Request("spider/action/scan")
    /\ \/ \E id \in ScanIds :
             /\ spiderId' = id
             /\ pc' = "spider_poll"
             /\ UNCHANGED << exc, failedStep >>
       \/ /\ Raise("RequestException", "discover")
          /\ spiderId' = spiderId
    /\ UNCHANGED << zap_process, waited, spawn_calls, attempts, lastVersion,
                    started, authProbe, auth_calls, spiderStatus,
                    spiderPollId, ascanId, ascanStatus, ascanPollId, results,
                    risk_counts, detailed_findings, report, report_writes,
                    htmlOutcome, summaryPrinted, stop_calls, terminate_calls,
                    exit_code >>
    /\ spider_starts' = spider_starts + 1
    /\ spiderPolls' = 0
    /\ UNCHANGED << ascan_starts, pollAfterDone, spiderReturn, ascanReturn >>

\* params={'scanId': scan_id} of the status poll of run_spider_scan
SpiderPollParam == spiderId

\* one more poll of the running loop
CountPoll(n) == IF n < MaxPolls THEN n + 1 ELSE n

\* one iteration of the while loop of run_spider_scan; "return scan_id" when
\* the loop is left
SpiderPoll ==
    /\ pc = "spider_poll"
    /\ Request("spider/view/status")
    /\ spiderPollId' = SpiderPollParam
    /\ pollAfterDone' = (pollAfterDone \/ SpiderDone(spiderStatus))
    /\ \/ \E status \in StatusValues :
             /\ spiderStatus' = status
             /\ IF SpiderDone(status)
                THEN /\ pc' = "ascan_start"
                     /\ spiderReturn' = spiderId
                     /\ spiderPolls' = 0
                ELSE /\ pc' = pc
                     /\ spiderReturn' = spiderReturn
                     /\ spiderPolls' = CountPoll(spiderPolls)
             /\ UNCHANGED << exc, failedStep >>
       \/ /\ Raise("RequestException", "discover")
          /\ spiderStatus' = spiderStatus
          /\ spiderReturn' = spiderReturn
          /\ spiderPolls' = 0
    /\ UNCHANGED << zap_process, waited, spawn_calls, attempts, lastVersion,
                    started, authProbe, auth_calls, spiderId, ascanId,
                    ascanStatus, ascanPollId, results, risk_counts,
                    detailed_findings, report, report_writes, htmlOutcome,
                    summaryPrinted, stop_calls, terminate_calls, trace,
                    exit_code, spider_starts, ascan_starts, ascanReturn >>

----------------------------------------------------------------------------
(* run_active_scan *)

\* the ascan/action/scan request and response.json()['scan']
AscanStart ==
    /\ pc = "ascan_start"
    /\ Begin("probe")
    /\ Request("ascan/action/scan")
    /\ \/ \E id \in ScanIds :
             /\ ascanId' = id
             /\ pc' = "ascan_poll"
             /\ UNCHANGED << exc, failedStep >>
       \/ /\ Raise("RequestException", "probe")
          /\ ascanId' = ascanId
    /\ UNCHANGED << zap_process, waited, spawn_calls, attempts, lastVersion,
                    started, authProbe, auth_calls, spiderId, spiderStatus,
                    spiderPollId, ascanStatus, ascanPollId, results,
                    risk_counts, detailed_findings, report, report_writes,
                    htmlOutcome, summaryPrinted, stop_calls, terminate_calls,
                    exit_code >>
    /\ ascan_starts' = ascan_starts + 1
    /\ UNCHANGED << spiderPolls, spider_starts, pollAfterDone, spiderReturn,
                    ascanReturn >>

AscanPollParam_spider == spiderId

\* params={'scanId': scan_id} of the status poll of run_active_scan
AscanPollParam == ascanId

\* one iteration of the while loop of run_active_scan; "return scan_id" when
\* the loop is left
AscanPoll ==
    /\ pc = "ascan_poll"
    /\ Request("ascan/view/status")
    /\ ascanPollId' = AscanPollParam
    /\ pollAfterDone' = (pollAfterDone \/ AscanDone(ascanStatus))
    /\ \/ \E status \in StatusValues :
             /\ ascanStatus' = status
             /\ IF AscanDone(status)
                THEN pc' = "get_results" /\ ascanReturn' = ascanId
                ELSE pc' = pc /\ ascanReturn' = ascanReturn
             /\ UNCHANGED << exc, failedStep >>
       \/ /\ Raise("RequestException", "probe")
          /\ ascanStatus' = ascanStatus
          /\ ascanReturn' = ascanReturn
    /\ UNCHANGED << zap_process, waited, spawn_calls, attempts, lastVersion,
                    started, authProbe, auth_calls, spiderId, spiderStatus,
                    spiderPollId, ascanId, results, risk_counts,
                    detailed_findings, report, report_writes, htmlOutcome,
                    summaryPrinted, stop_calls, terminate_calls, trace,
                    exit_code, spiderPolls, spider_starts, ascan_starts,
                    spiderReturn >>

----------------------------------------------------------------------------
(* get_scan_results, generate_report *)

\* the core/view/alerts request and alerts_response.json()
GetResults ==
    /\ pc = "get_results"
    /\ Begin("report")
    /\ Request("core/view/alerts")
    /\ \/ \E res \in ResultValues :
             /\ results' = res
             /\ pc' = "categorize"
             /\ UNCHANGED << exc, failedStep >>
       \/ /\ Raise("RequestException", "report")
          /\ results' = results
    /\ UNCHANGED << zap_process, waited, spawn_calls, attempts, lastVersion,
                    started, authProbe, auth_calls, spiderId, spiderStatus,
                    spiderPollId, ascanId, ascanStatus, ascanPollId,
                    risk_counts, detailed_findings, report, report_writes,
                    htmlOutcome, summaryPrinted, stop_calls, terminate_calls,
                    exit_code >>
    /\ UNCHANGED scanVars

\* generate_report up to the end of the for loop
CategorizeAlerts ==
    /\ pc = "categorize"
    /\ LET res == Categorize(GetAlerts(results), 1, ZeroCounts, EmptyFindings)
       IN  /\ risk_counts' = res.counts
           /\ detailed_findings' = res.findings
           /\ IF res.ok
              THEN pc' = "write_report" /\ UNCHANGED << exc, failedStep >>
              ELSE Raise("KeyError", "report")
    /\ UNCHANGED << zap_process, waited, spawn_calls, attempts, lastVersion,
                    started, authProbe, auth_calls, spiderId, spiderStatus,
                    spiderPollId, ascanId, ascanStatus, ascanPollId, results,
                    report, report_writes, htmlOutcome, summaryPrinted,
                    stop_calls, terminate_calls, issued, lateRequest, trace,
                    exit_code >>
    /\ UNCHANGED scanVars

\* open(..., 'w') and json.dump: the file is written, or open raises OSError
WriteReport ==
    /\ pc = "write_report"
    /\ \/ /\ report' = MakeReport(GetAlerts(results), risk_counts,
                                  detailed_findings)
          /\ report_writes' = report_writes + 1
          /\ pc' = "html_report"
          /\ UNCHANGED << exc, failedStep >>
       \/ /\ Raise("OSError", "report")
          /\ UNCHANGED << report, report_writes >>
    /\ UNCHANGED << zap_process, waited, spawn_calls, attempts, lastVersion,
                    started, authProbe, auth_calls, spiderId, spiderStatus,
                    spiderPollId, ascanId, ascanStatus, ascanPollId, results,
                    risk_counts, detailed_findings, htmlOutcome,
                    summaryPrinted, stop_calls, terminate_calls, issued,
                    lateRequest, trace, exit_code >>
    /\ UNCHANGED scanVars

\* the htmlreport request (its response is not looked at) and the summary
HtmlReport ==
    /\ pc = "html_report"
    /\ Request("htmlreport")
    /\ \E out \in HtmlOutcomes :
          /\ htmlOutcome' = out
          /\ IF IsResponse(out)
             THEN /\ summaryPrinted' = TRUE
                  /\ pc' = "finally"
                  /\ UNCHANGED << exc, failedStep >>
             ELSE /\ Raise("RequestException", "report")
                  /\ summaryPrinted' = summaryPrinted
    /\ UNCHANGED << zap_process, waited, spawn_calls, attempts, lastVersion,
                    started, authProbe, auth_calls, spiderId, spiderStatus,
                    spiderPollId, ascanId, ascanStatus, ascanPollId, results,
                    risk_counts, detailed_findings, report, report_writes,
                    stop_calls, terminate_calls, trace, exit_code >>
    /\ UNCHANGED scanVars

----------------------------------------------------------------------------
(* stop_zap and the end of the run *)

StopZap_twice ==
    /\ pc = "finally"
    /\ Begin("stop")
    /\ stop_calls' = stop_calls + 2
    /\ IF zap_process # "unset"
       THEN /\ zap_process' = "terminated"
            /\ terminate_calls' = terminate_calls + 2
            /\ waited' = TRUE
       ELSE UNCHANGED << zap_process, terminate_calls, waited >>
    /\ exit_code' = IF exc = "none" THEN 0 ELSE 1
    /\ pc' = "done"
    /\ UNCHANGED << spawn_calls, attempts, lastVersion, started, authProbe,
                    auth_calls, spiderId, spiderStatus, spiderPollId, ascanId,
                    ascanStatus, ascanPollId, results, risk_counts,
                    detailed_findings, report, report_writes, htmlOutcome,
                    summaryPrinted, exc, failedStep, issued, lateRequest >>
    /\ UNCHANGED scanVars

StopZap_failOnHigh ==
    /\ pc = "finally"
    /\ Begin("stop")
    /\ stop_calls' = stop_calls + 1
    /\ IF zap_process # "unset"
       THEN /\ zap_process' = "terminated"
            /\ terminate_calls' = terminate_calls + 1
            /\ waited' = TRUE
       ELSE UNCHANGED << zap_process, terminate_calls, waited >>
    /\ exit_code' = IF exc = "none" /\ report.summary["High"] = 0
                    THEN 0 ELSE 1
    /\ pc' = "done"
    /\ UNCHANGED << spawn_calls, attempts, lastVersion, started, authProbe,
                    auth_calls, spiderId, spiderStatus, spiderPollId, ascanId,
                    ascanStatus, ascanPollId, results, risk_counts,
                    detailed_findings, report, report_writes, htmlOutcome,
                    summaryPrinted, exc, failedStep, issued, lateRequest >>
    /\ UNCHANGED scanVars

\* the finally clause of run_full_scan: stop_zap; then the run returns to main
\* (exit status 0) or the pending exception ends the process (exit status 1)
StopZap ==
    /\ pc = "finally"
    /\ Begin("stop")
    /\ stop_calls' = stop_calls + 1
    /\ IF zap_process # "unset"
       THEN /\ zap_process' = "terminated"
            /\ terminate_calls' = terminate_calls + 1
            /\ waited' = TRUE
       ELSE UNCHANGED << zap_process, terminate_calls, waited >>
    /\ exit_code' = IF exc = "none" THEN 0 ELSE 1
    /\ pc' = "done"
    /\ UNCHANGED << spawn_calls, attempts, lastVersion, started, authProbe,
                    auth_calls, spiderId, spiderStatus, spiderPollId, ascanId,
                    ascanStatus, ascanPollId, results, risk_counts,
                    detailed_findings, report, report_writes, htmlOutcome,
                    summaryPrinted, exc, failedStep, issued, lateRequest >>
    /\ UNCHANGED scanVars

----------------------------------------------------------------------------

Next ==
    \/ Main
    \/ Spawn
    \/ PollVersion
    \/ ReadyTimeout
    \/ StartFailed
    \/ Configure
    \/ HasAuth
    \/ SpiderStart
    \/ SpiderPoll
    \/ AscanStart
    \/ AscanPoll
    \/ GetResults
    \/ CategorizeAlerts
    \/ WriteReport
    \/ HtmlReport
    \/ StopZap

Spec == Init /\ [][Next]_vars

----------------------------------------------------------------------------
(* Vocabulary of the properties *)

StepIndex(step) ==
    CASE step = "start" -> 1
      [] step = "configure" -> 2
      [] step = "discover" -> 3
      [] step = "probe" -> 4
      [] step = "report" -> 5
      [] step = "stop" -> 6

\* the engine control endpoints requested by each step
StepRequests(step) ==
    CASE step = "start" -> {"version"}
      [] step = "configure" -> {"includeInContext"}
      [] step = "discover" -> {"spider/action/scan", "spider/view/status"}
      [] step = "probe" -> {"ascan/action/scan", "ascan/view/status"}
      [] step = "report" -> {"core/view/alerts", "htmlreport"}
      [] step = "stop" -> {}

InTrace(step) == \E i \in 1..Len(trace) : trace[i] = step

SumCounts(counts) ==
    counts["High"] + counts["Medium"] + counts["Low"] + counts["Informational"]

\* alerts whose 'risk' is missing or none of High, Medium, Low
InformationalOrUnknown(alerts) ==
    {i \in 1..Len(alerts) : alerts[i].risk \notin {"High", "Medium", "Low"}}

----------------------------------------------------------------------------
(* C1: whenever a run has ended and the engine process had been spawned,   *)
(* the process was terminated and waited on, and exactly one engine was    *)
(* started and torn down.  The code violates this on the path where the    *)
(* process was spawned but never became ready: sys.exit(1) is reached      *)
(* outside the try/finally.                                                *)
C1_EngineAlwaysTornDown ==
    (pc = "done" /\ spawn_calls > 0)
        => /\ zap_process = "terminated"
           /\ waited
           /\ terminate_calls = 1
           /\ spawn_calls = 1

(* C2: in a run in which the engine became ready, stop_zap is called       *)
(* exactly once, whether the steps succeeded or one of them raised: never  *)
(* before the end of the try block, once when the run has ended.           *)
C2_StopExactlyOnce ==
    started = "true"
        => /\ stop_calls <= 1
           /\ (pc = "done" => stop_calls = 1)
           /\ (pc # "done" => stop_calls = 0)

C2_Witness ==
    /\ pc = "done"
    /\ started = "true"
    /\ exc = "KeyError"
    /\ stop_calls = 1

(* C3: the active-scan start request is issued only when the latest spider *)
(* status read in this run is 100.                                         *)
C3_ProbeAfterDiscovery ==
    "ascan/action/scan" \in issued
        => /\ spiderStatus = "100"
           /\ "spider/view/status" \in issued

C3_Witness ==
    /\ "ascan/action/scan" \in issued
    /\ spiderStatus = "100"
    /\ pc = "ascan_poll"

(* C4: when start_zap_daemon returned False (spawn failed or no version    *)
(* poll succeeded), the run ends with exit status 1 and no scope, auth     *)
(* probe, spider, active-scan, alerts or report step has been executed.    *)
C4_FailedStartAborts ==
    started = "false"
        => /\ pc \in {"start_failed", "done"}
           /\ (pc = "done" => exit_code = 1)
           /\ issued \subseteq {"version"}
           /\ authProbe = NoOutcome
           /\ auth_calls = 0
           /\ trace = << "start" >>
           /\ report_writes = 0
           /\ ~report.written

C4_Witness ==
    /\ started = "false"
    /\ pc = "done"
    /\ exit_code = 1
    /\ zap_process = "running"
    /\ attempts = max_attempts

(* C5: a report written by generate_report has the sum of its four summary *)
(* counts equal to total_alerts and equal to the number of alerts fetched; *)
(* for an empty alert sequence all four counts and total_alerts are 0.     *)
C5_CountsAddUp ==
    report.written
        => /\ SumCounts(report.summary) = report.total_alerts
           /\ report.total_alerts = Len(GetAlerts(results))
           /\ (Len(GetAlerts(results)) = 0
                  => /\ report.total_alerts = 0
                     /\ \A s \in Severities : report.summary[s] = 0)

C5_Witness ==
    /\ report.written
    /\ report.total_alerts = 2
    /\ report.summary["High"] = 1
    /\ report.summary["Informational"] = 1

(* C6: once the categorising loop of generate_report has run, every alert  *)
(* whose risk is missing or unrecognised was counted in and appended to    *)
(* the Informational bucket, and no exception was raised by it.  The code  *)
(* raises KeyError on an unrecognised risk.                                *)
C6_UnknownRiskIsInformational ==
    /\ exc # "KeyError"
    /\ (pc \in {"write_report", "html_report"} \/ report.written)
          => /\ risk_counts["Informational"]
                  = Cardinality(InformationalOrUnknown(GetAlerts(results)))
             /\ Len(detailed_findings["Informational"])
                  = Cardinality(InformationalOrUnknown(GetAlerts(results)))

(* C7: when the HTML report request raised, the JSON report is on disk,    *)
(* no exception leaves generate_report, the summary is printed and the run *)
(* ends with exit status 0.  The code lets the exception propagate.        *)
C7_HtmlFailureIgnored ==
    htmlOutcome.kind \notin {"none", "response"}
        => /\ report.written
           /\ exc = "none"
           /\ (pc = "done" => (summaryPrinted /\ exit_code = 0))

(* C8: when configuration, discovery or probing raised, no later step of   *)
(* the sequence was begun, none of their requests was issued, no report    *)
(* was written, and the run ends only through stop_zap.                    *)
C8_FailureSkipsRest ==
    failedStep \in {"configure", "discover", "probe"}
        => /\ pc \in {"finally", "done"}
           /\ \A step \in {"configure", "discover", "probe", "report"} :
                 StepIndex(step) > StepIndex(failedStep)
                    => (~InTrace(step) /\ issued \cap StepRequests(step) = {})
           /\ ~report.written
           /\ report_writes = 0
           /\ (pc = "done" => (stop_calls = 1 /\ InTrace("stop")))

C8_Witness ==
    /\ failedStep = "discover"
    /\ pc = "done"
    /\ stop_calls = 1
    /\ spiderStatus = "50"

(* C9: the steps begin in the order start, configure, discover, probe,     *)
(* report, stop; none begins twice, none is skipped before a later one     *)
(* begins (only stop may follow an aborted step), stop is the last step,   *)
(* and no engine control request is issued after stop.                     *)
C9_SequentialSteps ==
    /\ \A i \in 1..Len(trace) :
          IF trace[i] = "stop"
          THEN i = Len(trace) /\ i >= 3
          ELSE StepIndex(trace[i]) = i
    /\ ~lateRequest
    /\ (InTrace("stop") => pc = "done")

C9_Witness ==
    /\ trace = << "start", "configure", "discover", "probe", "report", "stop" >>
    /\ pc = "done"
    /\ exit_code = 0

(* C10 as stated: a version poll answered with any 2xx status makes        *)
(* start_zap_daemon return True at once.  The code accepts 200 only.       *)
C10_Any2xxIsReady ==
    Is2xx(lastVersion) => started = "true"

(* C10 amended: start_zap_daemon returns True exactly when a poll is       *)
(* answered with status 200, and at once; any other response (other 2xx    *)
(* included) and any ConnectionError lets it poll again; it polls at most  *)
(* max_attempts times and returns False, never raising, when no poll was   *)
(* answered with 200.                                                      *)
C10_ReadinessWait ==
    /\ attempts <= max_attempts
    /\ lastVersion = Resp(200) <=> started = "true"
    /\ (started = "pending" /\ attempts > 0) => pc = "wait_ready"
    /\ started = "false" => (exc = "none" /\ failedStep = "none")
    /\ pc \in {"start", "wait_ready", "start_failed"} => exc = "none"

C10_Witness ==
    /\ started = "false"
    /\ attempts = max_attempts
    /\ lastVersion = Resp(204)
    /\ pc = "done"

\* the names of the alerts of one severity, in retrieval order
RECURSIVE BucketOf(_, _)
BucketOf(alerts, sev) ==
    IF alerts = << >>
    THEN << >>
    ELSE LET rest == BucketOf(Tail(alerts), sev)
         IN  IF AlertRisk(Head(alerts)) = sev
             THEN << [name |-> Head(alerts).alert] >> \o rest
             ELSE rest

\* the polls beyond which a caller-supplied discovery timeout has expired
SpiderTimeoutPolls == MaxPolls - 1

----------------------------------------------------------------------------
(* C11: a run in which the engine became ready and every step completed    *)
(* (generate_report returned) ends with exit status 0, whatever the number *)
(* and the severities of the alerts.                                       *)
C11_CompletedRunExitsZero ==
    (pc = "done" /\ started = "true" /\ summaryPrinted)
        => /\ exit_code = 0
           /\ exc = "none"

C11_Witness ==
    /\ pc = "done"
    /\ summaryPrinted
    /\ exit_code = 0
    /\ report.total_alerts = 2
    /\ report.summary["High"] = 2

(* C12: once the health probe was made, configure_authentication was       *)
(* called exactly when the probe answered 401 and never otherwise; no      *)
(* probe outcome raises out of has_auth; the probe and the call come after *)
(* the scope registration request.                                         *)
C12_AuthOnlyOn401 ==
    /\ authProbe # NoOutcome
          => /\ auth_calls = (IF authProbe = Resp(401) THEN 1 ELSE 0)
             /\ pc # "has_auth"
             /\ failedStep # "configure"
             /\ "includeInContext" \in issued
    /\ authProbe = NoOutcome => auth_calls = 0

C12_Witness ==
    /\ authProbe = Resp(401)
    /\ auth_calls = 1
    /\ pc = "spider_start"

(* C13: with a caller-supplied timeout, run_spider_scan does not go on     *)
(* polling once the timeout has expired.  The code takes no timeout and    *)
(* polls for as long as the status is not 100.                             *)
C13_SpiderTimeoutHonoured ==
    spiderPolls <= SpiderTimeoutPolls

(* C14: in a written report every bucket of 'findings' holds exactly the   *)
(* alerts of that severity in the order in which they were retrieved, so   *)
(* that no alert is lost, duplicated or moved.                             *)
C14_StableBuckets ==
    report.written
        => /\ \A sev \in Severities :
                 report.findings[sev] = BucketOf(GetAlerts(results), sev)
           /\ Len(report.findings["High"]) + Len(report.findings["Medium"])
                + Len(report.findings["Low"])
                + Len(report.findings["Informational"])
                 = Len(GetAlerts(results))

C14_Witness ==
    /\ report.written
    /\ report.findings["High"] = << [name |-> "b"], [name |-> "a"] >>

(* C15: zap-report.json is written at most once in a run, only after the   *)
(* spider and the active scan were both read at status 100 and the alerts  *)
(* were fetched, and it holds the report of those alerts up to the end.    *)
C15_ReportWrittenOnce ==
    /\ report_writes <= 1
    /\ report.written <=> report_writes = 1
    /\ report.written
          => /\ spiderStatus = "100"
             /\ ascanStatus = "100"
             /\ "core/view/alerts" \in issued
             /\ report = MakeReport(GetAlerts(results), risk_counts,
                                    detailed_findings)
             /\ pc \in {"html_report", "finally", "done"}

C15_Witness ==
    /\ report.written
    /\ report_writes = 1
    /\ pc = "done"
    /\ htmlOutcome = Resp(200)

(* C16: every status poll carries the scan id returned by the start        *)
(* request of its own function, each function sends one start request,     *)
(* no status poll follows a poll that read 100, and the id of the job is   *)
(* what the function returns, when its job was read at 100.                *)
C16_JobLifecycle ==
    /\ spiderPollId \in {"none", spiderId}
    /\ ascanPollId \in {"none", ascanId}
    /\ spider_starts <= 1
    /\ ascan_starts <= 1
    /\ spiderId # "none" => spider_starts = 1
    /\ ascanId # "none" => ascan_starts = 1
    /\ ~pollAfterDone
    /\ spiderReturn = (IF spiderStatus = "100" THEN spiderId ELSE "none")
    /\ ascanReturn = (IF ascanStatus = "100" THEN ascanId ELSE "none")
    /\ spiderStatus = "100" => pc # "spider_poll"
    /\ ascanStatus = "100" => pc # "ascan_poll"

C16_Witness ==
    /\ spiderId = "0"
    /\ spiderReturn = "0"
    /\ ascanId = "1"
    /\ ascanPollId = "1"
    /\ ascanStatus = "100"
    /\ ascanReturn = "1"

(* C17: a run in which the engine became ready, no request failed, the     *)
(* report file could be opened and both jobs were read at status 100 has,  *)
(* when it has ended, written the JSON report and then stopped the engine; *)
(* and no run gets past a polling loop whose job was not read at 100.  The *)
(* code ends such a run without a report when an alert has an unrecognised *)
(* risk (the KeyError of C6).                                              *)
C17_CompleteRunWritesReport ==
    /\ (pc = "done" /\ started = "true"
          /\ exc \notin {"RequestException", "OSError"}
          /\ spiderStatus = "100" /\ ascanStatus = "100")
          => (report.written /\ stop_calls = 1)
    /\ (report.written \/ (stop_calls > 0 /\ exc = "none"))
          => (spiderStatus = "100" /\ ascanStatus = "100")

====
